---------------------------- MODULE Spec2Model ----------------------------
(***************************************************************************)
(* Model of camball/eCommerceSimulator, ecommerce/order.py: the order      *)
(* aggregate (BaseOrder, Order, RandomOrder) and the discount store        *)
(* (initDiscountDatabase, addDiscountToDatabase).                          *)
(*                                                                         *)
(* One order object and one discounts table are modelled.  Every call is   *)
(* one action; `call` holds the call and its arguments, `err` the          *)
(* exception it raised ("none" when it returned), `result` its return      *)
(* value and `printed` the number of diagnostics it printed.               *)
(*                                                                         *)
(* Python's None is the empty sequence <<>>, a value v that may be None is *)
(* <<v>>.  A dict is a function whose DOMAIN is its key set.               *)
(***************************************************************************)
EXTENDS Integers, Sequences, FiniteSets, TLC

VARIABLES productList, catalog, discounts, call, err, result, printed

vars == <<productList, catalog, discounts, call, err, result, printed>>

-----------------------------------------------------------------------------
(* Bounds of the model *)

\* quantities passed to setQuantity and Order() lie within Slack of 0 and of
\* MAX_QUANTITY; removeProduct is not followed below -Slack - 1
Slack == 2

\* largest numRandomProducts passed to RandomOrder
MaxRandomProducts == 1

\* largest number of rows the discounts table is followed to
MaxRows == 2

-----------------------------------------------------------------------------
(* Program constants and values *)

MAX_QUANTITY == 25

None == <<>>

Some(v) == <<v>>

EmptyDict == [x \in {} |-> 0]

\* d[k] = v
DictSet(d, k, v) == [x \in (DOMAIN d) \cup {k} |-> IF x = k THEN v ELSE d[x]]

\* d.pop(k), k in d
DictPop(d, k) == [x \in (DOMAIN d) \ {k} |-> d[x]]

-----------------------------------------------------------------------------
(* The products module (catalog collaborator) *)

Products == {"A", "B"}

Price == [p \in Products |-> IF p = "A" THEN 150 ELSE 300]

productExists(productUUID) == productUUID \in catalog

\* the product's price, or None where getProductByUUID raises
\* ProductNotFoundError
getProductByUUID(productUUID) ==
    IF productUUID \in catalog THEN Some(Price[productUUID]) ELSE None

QuantityArgs == ((0 - Slack) .. Slack) \cup ((MAX_QUANTITY - Slack) .. (MAX_QUANTITY + Slack))

OrderDicts == UNION {[S -> QuantityArgs] : S \in SUBSET Products}

-----------------------------------------------------------------------------
(* BaseOrder *)

BaseOrder__init__ == EmptyDict

RECURSIVE totalPriceLoop(_, _)
\* the loop of totalPrice over the items `todo` still to visit:
\* <<sum of the prices appended, diagnostics printed>>
totalPriceLoop(pl, todo) ==
    IF todo = {} THEN <<0, 0>>
    ELSE LET productUUID == CHOOSE x \in todo : TRUE
             quantity == pl[productUUID]
             p == getProductByUUID(productUUID)
             rest == totalPriceLoop(pl, todo \ {productUUID})
         IN  IF p # None
             THEN <<p[1] * quantity + rest[1], rest[2]>>
             ELSE <<rest[1], rest[2] + 1>>

\* totalPrice without the try/except around getProductByUUID
totalPrice_uncaught ==
    /\ call' = [op |-> "totalPrice"]
    /\ LET r == totalPriceLoop(productList, DOMAIN productList)
       IN  IF r[2] > 0
           THEN /\ err' = "ProductNotFoundError"
                /\ result' = None
                /\ printed' = 0
           ELSE /\ err' = "none"
                /\ result' = Some(r[1])
                /\ printed' = 0
    /\ UNCHANGED <<productList, catalog, discounts>>

totalPrice ==
    /\ call' = [op |-> "totalPrice"]
    /\ LET r == totalPriceLoop(productList, DOMAIN productList)
       IN  /\ result' = Some(r[1])
           /\ printed' = r[2]
    /\ err' = "none"
    /\ UNCHANGED <<productList, catalog, discounts>>

\* addProduct without the productExists test
addProduct_nocheck(productUUID) ==
    /\ call' = [op |-> "addProduct", productUUID |-> productUUID]
    /\ result' = None
    /\ printed' = 0
    /\ err' = "none"
    /\ IF productUUID \notin DOMAIN productList
       THEN productList' = DictSet(productList, productUUID, 1)
       ELSE IF productList[productUUID] <= MAX_QUANTITY
            THEN productList' = DictSet(productList, productUUID,
                                        productList[productUUID] + 1)
            ELSE UNCHANGED productList
    /\ UNCHANGED <<catalog, discounts>>

addProduct(productUUID) ==
    /\ call' = [op |-> "addProduct", productUUID |-> productUUID]
    /\ result' = None
    /\ printed' = 0
    /\ IF ~productExists(productUUID)
       THEN /\ err' = "ProductNotFoundError"
            /\ UNCHANGED productList
       ELSE /\ err' = "none"
            /\ IF productUUID \notin DOMAIN productList
               THEN productList' = DictSet(productList, productUUID, 1)
               ELSE IF productList[productUUID] <= MAX_QUANTITY
                    THEN productList' = DictSet(productList, productUUID,
                                                productList[productUUID] + 1)
                    ELSE UNCHANGED productList
    /\ UNCHANGED <<catalog, discounts>>

\* removeProduct that decrements a quantity of 1 instead of popping the entry
removeProduct_nopop(productUUID) ==
    /\ call' = [op |-> "removeProduct", productUUID |-> productUUID]
    /\ result' = None
    /\ printed' = 0
    /\ IF ~productExists(productUUID)
       THEN /\ err' = "ProductNotFoundError"
            /\ UNCHANGED productList
       ELSE /\ err' = "none"
            /\ IF productUUID \notin DOMAIN productList
               THEN UNCHANGED productList
               ELSE /\ productList[productUUID] > 0 - Slack - 1
                    /\ productList' = DictSet(productList, productUUID,
                                              productList[productUUID] - 1)
    /\ UNCHANGED <<catalog, discounts>>

removeProduct(productUUID) ==
    /\ call' = [op |-> "removeProduct", productUUID |-> productUUID]
    /\ result' = None
    /\ printed' = 0
    /\ IF ~productExists(productUUID)
       THEN /\ err' = "ProductNotFoundError"
            /\ UNCHANGED productList
       ELSE /\ err' = "none"
            /\ IF productUUID \in DOMAIN productList /\ productList[productUUID] = 1
               THEN productList' = DictPop(productList, productUUID)
               ELSE IF productUUID \notin DOMAIN productList
                    THEN UNCHANGED productList
                    ELSE /\ productList[productUUID] > 0 - Slack - 1
                         /\ productList' = DictSet(productList, productUUID,
                                                   productList[productUUID] - 1)
    /\ UNCHANGED <<catalog, discounts>>

\* setQuantity that handles quantity == 0 before it validates the product
setQuantity_latecheck(productUUID, quantity) ==
    /\ call' = [op |-> "setQuantity", productUUID |-> productUUID,
                quantity |-> quantity]
    /\ result' = None
    /\ printed' = 0
    /\ IF quantity = 0
       THEN IF productUUID \in DOMAIN productList
            THEN /\ err' = "none"
                 /\ productList' = DictPop(productList, productUUID)
            ELSE /\ err' = "KeyError"
                 /\ UNCHANGED productList
       ELSE IF ~productExists(productUUID)
            THEN /\ err' = "ProductNotFoundError"
                 /\ UNCHANGED productList
            ELSE /\ err' = "none"
                 /\ IF productUUID \notin DOMAIN productList
                    THEN productList' = DictSet(productList, productUUID, quantity)
                    ELSE IF quantity <= MAX_QUANTITY
                         THEN IF productList[productUUID] # 0
                              THEN productList' = DictSet(productList, productUUID,
                                                          quantity)
                              ELSE UNCHANGED productList
                         ELSE UNCHANGED productList
    /\ UNCHANGED <<catalog, discounts>>

\* setQuantity that pops with a default: productList.pop(productUUID, None)
setQuantity_popdefault(productUUID, quantity) ==
    /\ call' = [op |-> "setQuantity", productUUID |-> productUUID,
                quantity |-> quantity]
    /\ result' = None
    /\ printed' = 0
    /\ IF ~productExists(productUUID)
       THEN /\ err' = "ProductNotFoundError"
            /\ UNCHANGED productList
       ELSE /\ err' = "none"
            /\ IF quantity = 0
               THEN productList' = DictPop(productList, productUUID)
               ELSE IF productUUID \notin DOMAIN productList
                    THEN productList' = DictSet(productList, productUUID, quantity)
                    ELSE IF quantity <= MAX_QUANTITY
                         THEN IF productList[productUUID] # 0
                              THEN productList' = DictSet(productList, productUUID,
                                                          quantity)
                              ELSE UNCHANGED productList
                         ELSE UNCHANGED productList
    /\ UNCHANGED <<catalog, discounts>>

setQuantity(productUUID, quantity) ==
    /\ call' = [op |-> "setQuantity", productUUID |-> productUUID,
                quantity |-> quantity]
    /\ result' = None
    /\ printed' = 0
    /\ IF ~productExists(productUUID)
       THEN /\ err' = "ProductNotFoundError"
            /\ UNCHANGED productList
       ELSE IF quantity = 0
            THEN IF productUUID \in DOMAIN productList
                 THEN /\ err' = "none"
                      /\ productList' = DictPop(productList, productUUID)
                 ELSE /\ err' = "KeyError"
                      /\ UNCHANGED productList
            ELSE /\ err' = "none"
                 /\ IF productUUID \notin DOMAIN productList
                    THEN productList' = DictSet(productList, productUUID, quantity)
                    ELSE IF quantity <= MAX_QUANTITY
                         THEN IF productList[productUUID] # 0
                              THEN productList' = DictSet(productList, productUUID,
                                                          quantity)
                              ELSE UNCHANGED productList
                         ELSE UNCHANGED productList
    /\ UNCHANGED <<catalog, discounts>>

-----------------------------------------------------------------------------
(* Order and RandomOrder *)

\* Order.__init__ whose comprehension filters on productExists only
OrderProductList_keepzero(orderDict) ==
    IF orderDict # None /\ DOMAIN orderDict[1] # {}
    THEN LET d == orderDict[1]
         IN  [productUUID \in {x \in DOMAIN d : productExists(x)} |-> d[productUUID]]
    ELSE BaseOrder__init__

\* the productList Order.__init__ leaves, orderDict being None or Some(dict)
OrderProductList(orderDict) ==
    IF orderDict # None /\ DOMAIN orderDict[1] # {}
    THEN LET d == orderDict[1]
         IN  [productUUID \in {x \in DOMAIN d : d[x] # 0 /\ productExists(x)}
                |-> d[productUUID]]
    ELSE BaseOrder__init__

Order(orderDict) ==
    /\ call' = [op |-> "Order", orderDict |-> orderDict]
    /\ result' = None
    /\ printed' = 0
    /\ err' = "none"
    /\ productList' = OrderProductList(orderDict)
    /\ UNCHANGED <<catalog, discounts>>

RECURSIVE RandomProductList(_, _)
\* the dict comprehension of RandomOrder.__init__ over the first n draws,
\* draws[i] = <<random.choice(allProducts)[0], random.randint(1, 5)>>
RandomProductList(draws, n) ==
    IF n = 0 THEN EmptyDict
    ELSE DictSet(RandomProductList(draws, n - 1), draws[n][1], draws[n][2])

RandomOrder(numRandomProducts) ==
    /\ call' = [op |-> "RandomOrder", numRandomProducts |-> numRandomProducts]
    /\ result' = None
    /\ printed' = 0
    /\ LET allProducts == catalog
       IN  IF numRandomProducts > 0 /\ allProducts = {}
           THEN /\ err' = "IndexError"
                /\ UNCHANGED productList
           ELSE /\ err' = "none"
                /\ \E draws \in [1 .. numRandomProducts -> allProducts \X (1 .. 5)] :
                      productList' = RandomProductList(draws, numRandomProducts)
    /\ UNCHANGED <<catalog, discounts>>

-----------------------------------------------------------------------------
(* The products database changing under the order *)

CatalogAdd(productUUID) ==
    /\ productUUID \notin catalog
    /\ catalog' = catalog \cup {productUUID}
    /\ call' = [op |-> "catalogAdd", productUUID |-> productUUID]
    /\ err' = "none"
    /\ result' = None
    /\ printed' = 0
    /\ UNCHANGED <<productList, discounts>>

CatalogRemove(productUUID) ==
    /\ productUUID \in catalog
    /\ catalog' = catalog \ {productUUID}
    /\ call' = [op |-> "catalogRemove", productUUID |-> productUUID]
    /\ err' = "none"
    /\ result' = None
    /\ printed' = 0
    /\ UNCHANGED <<productList, discounts>>

-----------------------------------------------------------------------------
(* The discounts database *)

\* the columns of the discounts table that CREATE TABLE declares PRIMARY KEY
\* or UNIQUE
discountsUniqueColumns == {}

DiscountCodes == {"X10", "Y20"}

Percentages == {None, Some(0), Some(1), Some(100), Some(101)}

DollarAmts == {None, Some(0), Some(1)}

FreeShippings == {None, Some(TRUE), Some(FALSE)}

Datetimes == {[year |-> 2026, month |-> 1, day |-> 31]}

ExpirationDates == {None} \cup {Some(d) : d \in Datetimes}

Pad2(n) == IF n < 10 THEN "0" \o ToString(n) ELSE ToString(n)

\* datetime.isoformat() of a datetime at midnight
isoformat(d) ==
    ToString(d.year) \o "-" \o Pad2(d.month) \o "-" \o Pad2(d.day) \o "T00:00:00"

\* _check_add_discount_args without the "3 arguments are set" disjunct
check_add_discount_args_no3(arg0, arg1, arg2) ==
    IF \/ (arg0 = None /\ arg1 = None /\ arg2 = None)
       \/ (arg0 = None /\ arg1 # None /\ arg2 # None)
       \/ (arg0 # None /\ arg1 # None /\ arg2 = None)
       \/ (arg0 # None /\ arg1 = None /\ arg2 # None)
    THEN TRUE
    ELSE FALSE

\* TRUE unless exactly one of the arguments is not None
check_add_discount_args(arg0, arg1, arg2) ==
    IF \/ (arg0 = None /\ arg1 = None /\ arg2 = None)
       \/ (arg0 = None /\ arg1 # None /\ arg2 # None)
       \/ (arg0 # None /\ arg1 # None /\ arg2 = None)
       \/ (arg0 # None /\ arg1 = None /\ arg2 # None)
       \/ (arg0 # None /\ arg1 # None /\ arg2 # None)
    THEN TRUE
    ELSE FALSE

\* INSERT INTO discounts VALUES row: the exception it raises and the table
\* it leaves
InsertDiscount(table, row) ==
    IF \E c \in discountsUniqueColumns :
          \E i \in 1 .. Len(table) : table[i][c] = row[c]
    THEN [err |-> "IntegrityError", table |-> table]
    ELSE [err |-> "none", table |-> Append(table, row)]

addDiscountToDatabase(discountCode, percentage, dollarAmt, freeShipping, expirationDate) ==
    /\ Len(discounts) < MaxRows
    /\ call' = [op |-> "addDiscountToDatabase", discountCode |-> discountCode,
                percentage |-> percentage, dollarAmt |-> dollarAmt,
                freeShipping |-> freeShipping, expirationDate |-> expirationDate]
    /\ result' = None
    /\ printed' = 0
    /\ IF check_add_discount_args(percentage, dollarAmt, freeShipping)
       THEN /\ err' = "ProgrammingError"
            /\ UNCHANGED discounts
       ELSE IF percentage # None /\ (percentage[1] < 1 \/ percentage[1] > 100)
            THEN /\ err' = "ValueError"
                 /\ UNCHANGED discounts
            ELSE IF dollarAmt # None /\ dollarAmt[1] < 1
                 THEN /\ err' = "ValueError"
                      /\ UNCHANGED discounts
                 ELSE LET expirationDate_ ==
                              IF expirationDate = None THEN "NULL"
                              ELSE isoformat(expirationDate[1])
                          ins == InsertDiscount(discounts,
                                    [discountCode |-> discountCode,
                                     percentage |-> percentage,
                                     dollarAmt |-> dollarAmt,
                                     freeShipping |-> freeShipping,
                                     expirationDateTime |-> expirationDate_])
                      IN  /\ err' = ins.err
                          /\ discounts' = ins.table
    /\ UNCHANGED <<productList, catalog>>

-----------------------------------------------------------------------------
(* Specifications *)

Init ==
    /\ productList = BaseOrder__init__
    /\ catalog \in SUBSET Products
    /\ discounts = <<>>
    /\ call = [op |-> "init"]
    /\ err = "none"
    /\ result = None
    /\ printed = 0

Next ==
    \/ \E productUUID \in Products : addProduct(productUUID)
    \/ \E productUUID \in Products : removeProduct(productUUID)
    \/ \E productUUID \in Products, quantity \in QuantityArgs :
          setQuantity(productUUID, quantity)
    \/ totalPrice
    \/ \E orderDict \in {None} \cup {Some(d) : d \in OrderDicts} : Order(orderDict)
    \/ \E numRandomProducts \in 0 .. MaxRandomProducts : RandomOrder(numRandomProducts)
    \/ \E productUUID \in Products : CatalogAdd(productUUID)
    \/ \E productUUID \in Products : CatalogRemove(productUUID)

\* one order and a products database that may change under it
Spec == Init /\ [][Next]_vars

AddOnlyNext == \E productUUID \in Products : addProduct(productUUID)

\* an empty order on which only addProduct is called
AddOnlySpec == Init /\ [][AddOnlyNext]_vars

FixedCatalogNext ==
    \/ \E productUUID \in Products : addProduct(productUUID)
    \/ \E productUUID \in Products : removeProduct(productUUID)
    \/ \E productUUID \in Products, quantity \in QuantityArgs :
          setQuantity(productUUID, quantity)
    \/ totalPrice
    \/ \E orderDict \in {None} \cup {Some(d) : d \in OrderDicts} : Order(orderDict)

\* an order built by Order() and changed by the three mutators, over a
\* products database that stays as it is
FixedCatalogSpec == Init /\ [][FixedCatalogNext]_vars

DiscountNext ==
    \E discountCode \in DiscountCodes, percentage \in Percentages,
       dollarAmt \in DollarAmts, freeShipping \in FreeShippings,
       expirationDate \in ExpirationDates :
        addDiscountToDatabase(discountCode, percentage, dollarAmt, freeShipping,
                              expirationDate)

DiscountInit == Init /\ catalog = Products

\* the discounts table, empty after initDiscountDatabase
DiscountSpec == DiscountInit /\ [][DiscountNext]_vars

-----------------------------------------------------------------------------
(* Properties *)

MutatorOps == {"addProduct", "removeProduct", "setQuantity"}

\* C1: on an order that started empty and saw only addProduct calls, no
\* quantity exceeds MAX_QUANTITY.
AddProductNeverExceedsMax ==
    \A p \in DOMAIN productList : productList[p] <= MAX_QUANTITY

\* C2: every quantity stored in productList is a positive integer.
StoredQuantitiesPositive ==
    \A p \in DOMAIN productList : productList[p] > 0

\* C3: addProduct, removeProduct and setQuantity called with a product that
\* is not in the catalog raise ProductNotFoundError and leave productList as
\* it was.
ProductNotFoundPreventsMutation ==
    [][(call'.op \in MutatorOps /\ call'.productUUID \notin catalog)
         => (err' = "ProductNotFoundError" /\ productList' = productList)]_vars

\* setQuantity(p, 0) was refused for a p missing from the catalog while p
\* has an entry in the order
NotFoundSetZeroWitness ==
    /\ call.op = "setQuantity"
    /\ call.quantity = 0
    /\ call.productUUID \notin catalog
    /\ call.productUUID \in DOMAIN productList
    /\ err = "ProductNotFoundError"

\* C4: no two rows of the discounts table have the same discountCode.
DiscountCodesUnique ==
    \A i, j \in 1 .. Len(discounts) :
        discounts[i].discountCode = discounts[j].discountCode => i = j

\* the number of discount kinds of r that are not None
KindsSet(r) ==
    (IF r.percentage = None THEN 0 ELSE 1)
  + (IF r.dollarAmt = None THEN 0 ELSE 1)
  + (IF r.freeShipping = None THEN 0 ELSE 1)

KindsInRange(r) ==
    /\ r.percentage # None => (r.percentage[1] >= 1 /\ r.percentage[1] <= 100)
    /\ r.dollarAmt # None => r.dollarAmt[1] >= 1

\* C5: every stored discount row has exactly one kind set, in range; a call
\* with zero, two or three kinds set raises ProgrammingError, a call with one
\* kind out of range raises ValueError, and a call that raises inserts no row.
DiscountRowsWellFormed ==
    /\ [](\A i \in 1 .. Len(discounts) :
             KindsSet(discounts[i]) = 1 /\ KindsInRange(discounts[i]))
    /\ [][call'.op = "addDiscountToDatabase" =>
            /\ KindsSet(call') # 1 => err' = "ProgrammingError"
            /\ (KindsSet(call') = 1 /\ ~KindsInRange(call')) => err' = "ValueError"
            /\ err' # "none" => discounts' = discounts]_vars

\* a call with all three kinds set was refused on a table that holds a row
ThreeKindsRefusedWitness ==
    /\ call.op = "addDiscountToDatabase"
    /\ KindsSet(call) = 3
    /\ KindsInRange(call)
    /\ err = "ProgrammingError"
    /\ Len(discounts) > 0

\* C6: for p in the catalog, setQuantity(p, 0) removes p's entry and keeps
\* the others when p is in the order, and raises, changing nothing, when p
\* is not; removeProduct(p) for such an absent p returns without change.
SetQuantityZeroRemovesOrRaises ==
    [][/\ (call'.op = "setQuantity" /\ call'.quantity = 0
             /\ call'.productUUID \in catalog)
          => IF call'.productUUID \in DOMAIN productList
             THEN /\ err' = "none"
                  /\ DOMAIN productList' = DOMAIN productList \ {call'.productUUID}
                  /\ \A x \in DOMAIN productList' : productList'[x] = productList[x]
             ELSE /\ err' # "none"
                  /\ productList' = productList
       /\ (call'.op = "removeProduct" /\ call'.productUUID \in catalog
             /\ call'.productUUID \notin DOMAIN productList)
          => (err' = "none" /\ productList' = productList)]_vars

\* setQuantity(p, 0) raised for a catalog product that has no entry, the
\* order holding another product
SetZeroAbsentWitness ==
    /\ call.op = "setQuantity"
    /\ call.quantity = 0
    /\ call.productUUID \in catalog
    /\ err = "KeyError"
    /\ call.productUUID \notin DOMAIN productList
    /\ DOMAIN productList # {}

\* C7: for p in the catalog with an entry and q # 0, setQuantity(p, q) makes
\* p's quantity q when q <= MAX_QUANTITY and leaves it when q > MAX_QUANTITY.
SetQuantityOverwritesPresent ==
    [][(call'.op = "setQuantity" /\ call'.quantity # 0
          /\ call'.productUUID \in catalog
          /\ call'.productUUID \in DOMAIN productList)
         => /\ call'.productUUID \in DOMAIN productList'
            /\ productList'[call'.productUUID] =
                 IF call'.quantity <= MAX_QUANTITY
                 THEN call'.quantity
                 ELSE productList[call'.productUUID]]_vars

\* C8: Order(m) leaves exactly the entries of m whose quantity is not 0 and
\* whose product is in the catalog, unchanged, raises nothing, and an Order
\* built from the resulting productList has the same productList.
OrderSanitizesMapping ==
    call.op = "Order" =>
        LET m == IF call.orderDict = None THEN EmptyDict ELSE call.orderDict[1]
        IN  /\ err = "none"
            /\ \A x \in Products :
                  x \in DOMAIN productList
                    <=> (x \in DOMAIN m /\ m[x] # 0 /\ x \in catalog)
            /\ \A x \in DOMAIN productList : productList[x] = m[x]
            /\ OrderProductList(Some(productList)) = productList

\* an Order was built from a mapping of which it kept one entry and dropped
\* another
OrderDroppedEntryWitness ==
    /\ call.op = "Order"
    /\ call.orderDict # None
    /\ DOMAIN productList # {}
    /\ DOMAIN productList # DOMAIN call.orderDict[1]

RECURSIVE SumOver(_, _, _)
\* the sum over the products S of price * quantity of those that are both in
\* the order pl and in the catalog cat
SumOver(S, pl, cat) ==
    IF S = {} THEN 0
    ELSE LET x == CHOOSE y \in S : TRUE
         IN  (IF x \in DOMAIN pl /\ x \in cat THEN Price[x] * pl[x] ELSE 0)
             + SumOver(S \ {x}, pl, cat)

\* C9: totalPrice returns the sum of unitPrice * quantity over the entries
\* whose product is in the catalog, raises nothing whatever the catalog
\* holds, and leaves productList unchanged.
TotalPriceSumsCatalogEntries ==
    [][call'.op = "totalPrice" =>
          /\ err' = "none"
          /\ result' = Some(SumOver(Products, productList, catalog))
          /\ productList' = productList]_vars

\* totalPrice was read on an order holding one product that is in the
\* catalog and one that is not
TotalPriceMissingProductWitness ==
    /\ call.op = "totalPrice"
    /\ err = "none"
    /\ \E x \in DOMAIN productList : x \notin catalog
    /\ \E x \in DOMAIN productList :
          x \in catalog /\ result = Some(Price[x] * productList[x])

\* C10: for p in the catalog, removeProduct(p) removes p's entry when its
\* quantity is 1, does nothing and raises nothing when p has no entry, and
\* otherwise lowers p's quantity by 1; other entries are unchanged.
RemoveProductDecrements ==
    [][(call'.op = "removeProduct" /\ call'.productUUID \in catalog) =>
          LET p == call'.productUUID
          IN  /\ err' = "none"
              /\ \A x \in Products \ {p} :
                    /\ x \in DOMAIN productList' <=> x \in DOMAIN productList
                    /\ x \in DOMAIN productList => productList'[x] = productList[x]
              /\ IF p \notin DOMAIN productList
                 THEN p \notin DOMAIN productList'
                 ELSE IF productList[p] = 1
                      THEN p \notin DOMAIN productList'
                      ELSE /\ p \in DOMAIN productList'
                           /\ productList'[p] = productList[p] - 1]_vars

\* removeProduct took the last unit of a catalog product out of an order
\* that holds another product
RemoveLastUnitWitness ==
    /\ call.op = "removeProduct"
    /\ call.productUUID \in catalog
    /\ err = "none"
    /\ call.productUUID \notin DOMAIN productList
    /\ DOMAIN productList # {}

\* C11: while the catalog does not change, an order built by Order() and
\* changed by addProduct, removeProduct and setQuantity holds only keys
\* that are in the catalog, and totalPrice never prints the diagnostic of
\* its ProductNotFoundError branch.
OrderKeysInCatalog ==
    /\ DOMAIN productList \subseteq catalog
    /\ call.op = "totalPrice" => printed = 0

\* totalPrice was read on a non-empty order while some product is missing
\* from the catalog
TotalPriceFixedCatalogWitness ==
    /\ call.op = "totalPrice"
    /\ DOMAIN productList # {}
    /\ catalog # Products
    /\ printed = 0
    /\ result # Some(0)

====
